---- MODULE Spec2Model ----
(***************************************************************************)
(* Model of src/main.c of the nRF5 scheduler tutorial: two buttons start   *)
(* and stop a repeated application timer whose timeout handler toggles     *)
(* LED 1.  main runs the initialisation calls in order and then idles in   *)
(* __WFI(); button_handler and timer_handler run as interrupt handlers     *)
(* that preempt main and, when their interrupt priorities differ, one      *)
(* another.                                                                *)
(*                                                                         *)
(* The SDK services main.c calls (clock, log, GPIOTE, app_timer,           *)
(* APP_ERROR_CHECK) are not part of the source file.  Their return codes   *)
(* are nondeterministic inputs; what the timer service does with an        *)
(* accepted start or stop is modelled from the specification (sections     *)
(* 3, 4.2 and 5) in the definitions app_timer_start, app_timer_stop and    *)
(* TimerServiceFires.                                                      *)
(***************************************************************************)
EXTENDS Naturals, Sequences, FiniteSets

VARIABLES
    pc_main,          \* position of main (the next statement it executes)
    halted,           \* TRUE once an APP_ERROR_CHECK has seen an error
    gpiote_prio,      \* interrupt priority of the GPIOTE handler (build configuration)
    timer_prio,       \* interrupt priority of the app_timer handler (build configuration)
    isr,              \* stack of the active handler invocations, innermost last
    m_led_a_timer_id, \* the timer: [state, period]
    LED_1,            \* level of the LED pin
    in_event_enabled, \* button pins whose GPIOTE event is enabled
    log,              \* the diagnostic stream (its most recent LogWindow lines)
    last_pin,         \* history: pin of the last dispatch whose timer command was accepted
    last_dispatch,    \* history: [pin, trace] of the last button dispatch that returned
    start_dispatched, \* history: TRUE once button_handler was invoked with BUTTON_1
    timer_runs,       \* history: "none", "odd" or "even" number of timer_handler runs
    toggles_since_cmd,\* history: LED toggles since the last accepted timer command (2: two or more)
    err_seen          \* history: TRUE once a collaborator returned a non-success code

vars == <<pc_main, halted, gpiote_prio, timer_prio, isr, m_led_a_timer_id, LED_1,
          in_event_enabled, log, last_pin, last_dispatch, start_dispatched, timer_runs,
          toggles_since_cmd, err_seen>>

(***************************************************************************)
(* Bounds.                                                                 *)
(***************************************************************************)
\* The number of most recent diagnostic lines the model remembers.
LogWindow == 3

(***************************************************************************)
(* Constants of the program.                                               *)
(***************************************************************************)
\* The argument of APP_TIMER_TICKS in button_handler.
BLINK_PERIOD_MS == 500

BUTTON_1 == "BUTTON_1"
BUTTON_2 == "BUTTON_2"
\* Any pin identifier that is neither BUTTON_1 nor BUTTON_2.
OTHER_PIN == "OTHER_PIN"
Pins == {BUTTON_1, BUTTON_2, OTHER_PIN}

NRF_SUCCESS == "NRF_SUCCESS"
NRF_ERROR == "NRF_ERROR"
RetCodes == {NRF_SUCCESS, NRF_ERROR}

APP_IRQ_PRIORITY_THREAD == "APP_IRQ_PRIORITY_THREAD"
APP_IRQ_PRIORITY_LOW == "APP_IRQ_PRIORITY_LOW"
APP_IRQ_PRIORITY_HIGH == "APP_IRQ_PRIORITY_HIGH"
IrqPriorities == {APP_IRQ_PRIORITY_LOW, APP_IRQ_PRIORITY_HIGH}

MSG_START == "Start toggling LED 1."
MSG_STOP == "Stop toggling LED 1."
MSG_BUTTON_THREAD == "Button handler is executing in thread/main mode."
MSG_BUTTON_IRQ == "Button handler is executing in interrupt handler mode."
MSG_TIMER_THREAD == "Timeout handler is executing in thread/main mode."
MSG_TIMER_IRQ == "Timeout handler is executing in interrupt handler mode."
MSG_BANNER == "Scheduler tutorial example started."

CMD_START == "app_timer_start"
CMD_STOP == "app_timer_stop"
CMD_NONE == "none"

(***************************************************************************)
(* Helpers.                                                                *)
(***************************************************************************)
\* NRF_LOG_INFO: append a line to the diagnostic stream.
NRF_LOG_INFO(l, line) ==
    IF Len(l) < LogWindow THEN Append(l, line) ELSE Append(Tail(l), line)

Top == isr[Len(isr)]
Pop == SubSeq(isr, 1, Len(isr) - 1)
ReplaceTop(f) == [isr EXCEPT ![Len(isr)] = f]

\* The priority the CPU is executing at: thread mode when no handler is active.
current_int_priority_get ==
    IF isr = <<>> THEN APP_IRQ_PRIORITY_THREAD ELSE Top.prio

\* An interrupt of priority p is taken when the CPU runs main or a handler of
\* lower priority.
Preempts(p) ==
    IF isr = <<>> THEN TRUE
    ELSE p = APP_IRQ_PRIORITY_HIGH /\ Top.prio = APP_IRQ_PRIORITY_LOW

Active(h) == \E i \in 1..Len(isr) : isr[i].handler = h

BlinkState == IF m_led_a_timer_id.state = "running" THEN "RUNNING" ELSE "STOPPED"

LedOn == LED_1 = "low"

(***************************************************************************)
(* button_handler's switch and the two mode reports.                       *)
(***************************************************************************)
\* Announcement with the BUTTON_2 case logging the BUTTON_1 line.
Announcement_copied(pin) ==
    CASE pin = BUTTON_1 -> MSG_START
      [] pin = BUTTON_2 -> MSG_START
      [] OTHER -> ""

\* The line button_handler logs before its timer command ("" for no line).
Announcement(pin) ==
    CASE pin = BUTTON_1 -> MSG_START
      [] pin = BUTTON_2 -> MSG_STOP
      [] OTHER -> ""

\* TimerCommand with the BUTTON_2 case calling app_timer_start too.
TimerCommand_both_start(pin) ==
    CASE pin = BUTTON_1 -> CMD_START
      [] pin = BUTTON_2 -> CMD_START
      [] OTHER -> CMD_NONE

\* TimerCommand with the two case bodies exchanged.
TimerCommand_swapped(pin) ==
    CASE pin = BUTTON_1 -> CMD_STOP
      [] pin = BUTTON_2 -> CMD_START
      [] OTHER -> CMD_NONE

\* TimerCommand with the default case falling into the BUTTON_2 case.
TimerCommand_default_stop(pin) ==
    CASE pin = BUTTON_1 -> CMD_START
      [] pin = BUTTON_2 -> CMD_STOP
      [] OTHER -> CMD_STOP

\* The timer command button_handler issues for a pin.
TimerCommand(pin) ==
    CASE pin = BUTTON_1 -> CMD_START
      [] pin = BUTTON_2 -> CMD_STOP
      [] OTHER -> CMD_NONE

\* ButtonContextLine with the comparison inverted.
ButtonContextLine_inverted(prio) ==
    IF prio # APP_IRQ_PRIORITY_THREAD THEN MSG_BUTTON_THREAD ELSE MSG_BUTTON_IRQ

\* "Log execution mode" of button_handler.
ButtonContextLine(prio) ==
    IF prio = APP_IRQ_PRIORITY_THREAD THEN MSG_BUTTON_THREAD ELSE MSG_BUTTON_IRQ

\* TimerContextLine with the lines copied from button_handler unchanged.
TimerContextLine_copied(prio) ==
    IF prio = APP_IRQ_PRIORITY_THREAD THEN MSG_BUTTON_THREAD ELSE MSG_BUTTON_IRQ

\* "Log execution mode" of timer_handler.
TimerContextLine(prio) ==
    IF prio = APP_IRQ_PRIORITY_THREAD THEN MSG_TIMER_THREAD ELSE MSG_TIMER_IRQ

\* nrf_drv_gpiote_out_toggle(LED_1) on a configured output pin.
nrf_drv_gpiote_out_toggle(level) ==
    CASE level = "low" -> "high"
      [] level = "high" -> "low"
      [] OTHER -> level

\* GPIOTE_CONFIG_OUT_SIMPLE(false): the pin is configured as an output, driven low.
nrf_drv_gpiote_out_init == "low"

\* nrf_drv_gpiote_out_clear in place of nrf_drv_gpiote_out_set: the pin stays low.
nrf_drv_gpiote_out_clear == "low"

\* nrf_drv_gpiote_out_set(LED_1): the pin is driven high, which turns the LED off.
nrf_drv_gpiote_out_set == "high"

(***************************************************************************)
(* The timer service, as the specification describes it.                   *)
(***************************************************************************)
\* The codes app_timer_start may return: a timer that was never created is
\* rejected; any request may fail for lack of resources.
app_timer_start_codes(t) ==
    IF t.state = "uncreated" THEN {NRF_ERROR} ELSE RetCodes

\* The codes app_timer_stop may return.
app_timer_stop_codes(t) ==
    IF t.state = "uncreated" THEN {NRF_ERROR} ELSE RetCodes

\* An accepted start: the timer runs with the requested period.
app_timer_start(t, period) == [state |-> "running", period |-> period]

\* An accepted stop: the timer no longer runs.
app_timer_stop(t) == [t EXCEPT !.state = "stopped"]

\* An accepted app_timer_create: the timer exists and does not run.
app_timer_create == [state |-> "stopped", period |-> 0]

\* The service invokes the timeout handler of a running timer only.
TimerServiceFires == m_led_a_timer_id.state = "running"

(***************************************************************************)
(* Initial state: power-on, before main's first statement.                 *)
(***************************************************************************)
Init ==
    /\ pc_main = "lfclk_request"
    /\ halted = FALSE
    /\ gpiote_prio \in IrqPriorities
    /\ timer_prio \in IrqPriorities
    /\ isr = <<>>
    /\ m_led_a_timer_id = [state |-> "uncreated", period |-> 0]
    /\ LED_1 = "unconfigured"
    /\ in_event_enabled = {}
    /\ log = <<>>
    /\ last_pin = "NONE"
    /\ last_dispatch = [pin |-> "NONE", trace |-> <<>>]
    /\ start_dispatched = FALSE
    /\ timer_runs = "none"
    /\ toggles_since_cmd = 0
    /\ err_seen = FALSE

(***************************************************************************)
(* main and the initialisation functions.  main executes only while no     *)
(* handler is active.                                                      *)
(***************************************************************************)
MainRuns(at) == ~halted /\ isr = <<>> /\ pc_main = at

\* APP_ERROR_CHECK with the error code ignored.
APP_ERROR_CHECK_ignored(err_code) == FALSE

\* The test APP_ERROR_CHECK(err_code) makes: any code but NRF_SUCCESS is fatal.
APP_ERROR_CHECK(err_code) == err_code # NRF_SUCCESS

\* A checked call of main's context that returned err_code: continue at
\* `next`, or halt at the check.
Checked(err_code, next) ==
    /\ pc_main' = IF APP_ERROR_CHECK(err_code) THEN pc_main ELSE next
    /\ halted' = APP_ERROR_CHECK(err_code)
    /\ err_seen' = (err_seen \/ err_code # NRF_SUCCESS)

\* Two checked calls in a row: the code the first failing check sees.
FirstError(e1, e2) == IF e1 # NRF_SUCCESS THEN e1 ELSE e2

lfclk_request ==
    /\ MainRuns("lfclk_request")
    /\ \E err_code \in RetCodes : Checked(err_code, "log_init")
    /\ UNCHANGED <<gpiote_prio, timer_prio, isr, m_led_a_timer_id, LED_1,
                   in_event_enabled, log, last_pin, last_dispatch,
                   start_dispatched, timer_runs, toggles_since_cmd>>

log_init ==
    /\ MainRuns("log_init")
    /\ \E err_code \in RetCodes : Checked(err_code, "gpio_init")
    /\ UNCHANGED <<gpiote_prio, timer_prio, isr, m_led_a_timer_id, LED_1,
                   in_event_enabled, log, last_pin, last_dispatch,
                   start_dispatched, timer_runs, toggles_since_cmd>>

\* gpio_init: nrf_drv_gpiote_init and nrf_drv_gpiote_out_init(LED_1, ...).
gpio_init_out ==
    /\ MainRuns("gpio_init")
    /\ \E e1, e2 \in RetCodes :
          /\ Checked(FirstError(e1, e2), "gpio_init_out_set")
          /\ LED_1' = IF FirstError(e1, e2) = NRF_SUCCESS
                         THEN nrf_drv_gpiote_out_init ELSE LED_1
    /\ UNCHANGED <<gpiote_prio, timer_prio, isr, m_led_a_timer_id,
                   in_event_enabled, log, last_pin, last_dispatch,
                   start_dispatched, timer_runs, toggles_since_cmd>>

\* gpio_init: nrf_drv_gpiote_out_set(LED_1).
gpio_init_out_set ==
    /\ MainRuns("gpio_init_out_set")
    /\ LED_1' = nrf_drv_gpiote_out_set
    /\ pc_main' = "gpio_init_in"
    /\ UNCHANGED <<halted, gpiote_prio, timer_prio, isr, m_led_a_timer_id,
                   in_event_enabled, log, last_pin, last_dispatch,
                   start_dispatched, timer_runs, toggles_since_cmd, err_seen>>

\* gpio_init: nrf_drv_gpiote_in_init for BUTTON_1 and BUTTON_2.
gpio_init_in ==
    /\ MainRuns("gpio_init_in")
    /\ \E e1, e2 \in RetCodes : Checked(FirstError(e1, e2), "gpio_init_enable_1")
    /\ UNCHANGED <<gpiote_prio, timer_prio, isr, m_led_a_timer_id, LED_1,
                   in_event_enabled, log, last_pin, last_dispatch,
                   start_dispatched, timer_runs, toggles_since_cmd>>

\* gpio_init: nrf_drv_gpiote_in_event_enable(BUTTON_1, true).
gpio_init_enable_1 ==
    /\ MainRuns("gpio_init_enable_1")
    /\ in_event_enabled' = in_event_enabled \cup {BUTTON_1}
    /\ pc_main' = "gpio_init_enable_2"
    /\ UNCHANGED <<halted, gpiote_prio, timer_prio, isr, m_led_a_timer_id, LED_1,
                   log, last_pin, last_dispatch, start_dispatched, timer_runs,
                   toggles_since_cmd, err_seen>>

\* gpio_init: nrf_drv_gpiote_in_event_enable(BUTTON_2, true).
gpio_init_enable_2 ==
    /\ MainRuns("gpio_init_enable_2")
    /\ in_event_enabled' = in_event_enabled \cup {BUTTON_2}
    /\ pc_main' = "timer_init"
    /\ UNCHANGED <<halted, gpiote_prio, timer_prio, isr, m_led_a_timer_id, LED_1,
                   log, last_pin, last_dispatch, start_dispatched, timer_runs,
                   toggles_since_cmd, err_seen>>

\* timer_init: app_timer_init.
timer_init ==
    /\ MainRuns("timer_init")
    /\ \E err_code \in RetCodes : Checked(err_code, "timer_create")
    /\ UNCHANGED <<gpiote_prio, timer_prio, isr, m_led_a_timer_id, LED_1,
                   in_event_enabled, log, last_pin, last_dispatch,
                   start_dispatched, timer_runs, toggles_since_cmd>>

\* timer_init: app_timer_create(&m_led_a_timer_id, APP_TIMER_MODE_REPEATED, timer_handler).
timer_create ==
    /\ MainRuns("timer_create")
    /\ \E err_code \in RetCodes :
          /\ Checked(err_code, "banner")
          /\ m_led_a_timer_id' =
                IF err_code = NRF_SUCCESS THEN app_timer_create ELSE m_led_a_timer_id
    /\ UNCHANGED <<gpiote_prio, timer_prio, isr, LED_1, in_event_enabled, log,
                   last_pin, last_dispatch, start_dispatched, timer_runs,
                   toggles_since_cmd>>

\* main: the startup banner.
main_banner ==
    /\ MainRuns("banner")
    /\ log' = NRF_LOG_INFO(log, MSG_BANNER)
    /\ pc_main' = "idle"
    /\ UNCHANGED <<halted, gpiote_prio, timer_prio, isr, m_led_a_timer_id, LED_1,
                   in_event_enabled, last_pin, last_dispatch, start_dispatched,
                   timer_runs, toggles_since_cmd, err_seen>>

\* main_loop without the while (true): main leaves the loop after one __WFI().
main_loop_once ==
    /\ MainRuns("idle")
    /\ pc_main' = "returned"
    /\ UNCHANGED <<halted, gpiote_prio, timer_prio, isr, m_led_a_timer_id, LED_1,
                   in_event_enabled, log, last_pin, last_dispatch, start_dispatched,
                   timer_runs, toggles_since_cmd, err_seen>>

\* main: while (true) __WFI();
main_loop ==
    /\ MainRuns("idle")
    /\ UNCHANGED vars

(***************************************************************************)
(* The interrupt handlers.  An invocation is a frame on isr; only the      *)
(* innermost frame executes, one statement group at a time:                *)
(*   button_handler: "switch" (case label and its log line), "command"     *)
(*   (the timer call and its check), "context" (the mode report, return);  *)
(*   timer_handler: "toggle", "context".                                   *)
(***************************************************************************)
HandlerRuns(h, at) ==
    ~halted /\ isr # <<>> /\ Top.handler = h /\ Top.pc = at

\* The pins the GPIOTE driver can report: a button whose event is enabled; any
\* other identifier also reaches the switch's default case.
Dispatchable(pin) ==
    \/ pin \in in_event_enabled
    \/ pin = OTHER_PIN /\ in_event_enabled # {}

\* gpiote_event_handler: the GPIOTE interrupt calls button_handler(pin).
gpiote_event_handler(pin) ==
    /\ ~halted
    /\ Dispatchable(pin)
    /\ ~Active("button")
    /\ Preempts(gpiote_prio)
    /\ isr' = Append(isr, [handler |-> "button", pin |-> pin, prio |-> gpiote_prio,
                           pc |-> "switch", trace |-> <<>>])
    /\ start_dispatched' = (start_dispatched \/ pin = BUTTON_1)
    /\ UNCHANGED <<pc_main, halted, gpiote_prio, timer_prio, m_led_a_timer_id, LED_1,
                   in_event_enabled, log, last_pin, last_dispatch, timer_runs,
                   toggles_since_cmd, err_seen>>

\* AfterSwitch with the break ahead of the timer call: the command is skipped.
AfterSwitch_break_first(pin) == "context"

\* AfterSwitch looping back: button_handler re-enters its switch.
AfterSwitch_spin(pin) == "switch"

\* Where button_handler continues after the case label's log line.
AfterSwitch(pin) ==
    IF TimerCommand(pin) = CMD_NONE THEN "context" ELSE "command"

\* The codes the timer command of a case may return for timer t.
CommandCodes(cmd, t) ==
    IF cmd = CMD_START THEN app_timer_start_codes(t) ELSE app_timer_stop_codes(t)

\* Timer t after the command of a case was accepted.
CommandEffect(cmd, t) ==
    IF cmd = CMD_START THEN app_timer_start(t, BLINK_PERIOD_MS) ELSE app_timer_stop(t)

\* One statement group of button_handler, for the invocation f running at
\* priority prio, with err_code the code its timer command returns, t the timer
\* and l the diagnostic stream: the frame, timer and stream afterwards, whether
\* the check was fatal and whether the handler returned.
button_handler(f, prio, err_code, t, l) ==
    CASE f.pc = "switch" ->
           LET line == Announcement(f.pin) IN
           [frame |-> [f EXCEPT !.pc = AfterSwitch(f.pin),
                                !.trace = IF line = "" THEN @ ELSE Append(@, line)],
            timer |-> t,
            log |-> IF line = "" THEN l ELSE NRF_LOG_INFO(l, line),
            fatal |-> FALSE,
            returned |-> FALSE]
      [] f.pc = "command" ->
           LET cmd == TimerCommand(f.pin) IN
           [frame |-> [f EXCEPT !.pc = IF APP_ERROR_CHECK(err_code)
                                          THEN "command" ELSE "context",
                                !.trace = Append(@, cmd)],
            timer |-> IF err_code = NRF_SUCCESS THEN CommandEffect(cmd, t) ELSE t,
            log |-> l,
            fatal |-> APP_ERROR_CHECK(err_code),
            returned |-> FALSE]
      [] OTHER ->
           LET line == ButtonContextLine(prio) IN
           [frame |-> [f EXCEPT !.trace = Append(@, line)],
            timer |-> t,
            log |-> NRF_LOG_INFO(l, line),
            fatal |-> FALSE,
            returned |-> TRUE]

\* The state after one statement group of button_handler with result r.
ButtonStep(r, accepted) ==
    /\ m_led_a_timer_id' = r.timer
    /\ log' = r.log
    /\ halted' = r.fatal
    /\ isr' = IF r.returned THEN Pop ELSE ReplaceTop(r.frame)
    /\ last_dispatch' = IF r.returned
                           THEN [pin |-> r.frame.pin, trace |-> r.frame.trace]
                           ELSE last_dispatch
    /\ last_pin' = IF accepted THEN Top.pin ELSE last_pin
    /\ toggles_since_cmd' = IF accepted THEN 0 ELSE toggles_since_cmd
    /\ UNCHANGED <<pc_main, gpiote_prio, timer_prio, LED_1, in_event_enabled,
                   start_dispatched, timer_runs>>

\* button_handler: switch (pin) and the announcement of the case taken.
button_handler_switch ==
    /\ HandlerRuns("button", "switch")
    /\ ButtonStep(button_handler(Top, current_int_priority_get, NRF_SUCCESS,
                                 m_led_a_timer_id, log), FALSE)
    /\ UNCHANGED err_seen

\* button_handler: app_timer_start / app_timer_stop and APP_ERROR_CHECK(err_code).
button_handler_command ==
    /\ HandlerRuns("button", "command")
    /\ \E err_code \in CommandCodes(TimerCommand(Top.pin), m_led_a_timer_id) :
          /\ ButtonStep(button_handler(Top, current_int_priority_get, err_code,
                                       m_led_a_timer_id, log),
                        err_code = NRF_SUCCESS)
          /\ err_seen' = (err_seen \/ err_code # NRF_SUCCESS)

\* button_handler: "Log execution mode", then return.
button_handler_context ==
    /\ HandlerRuns("button", "context")
    /\ ButtonStep(button_handler(Top, current_int_priority_get, NRF_SUCCESS,
                                 m_led_a_timer_id, log), FALSE)
    /\ UNCHANGED err_seen

\* The count of timer_handler runs after one more run.
OneMoreRun(n) == IF n = "odd" THEN "even" ELSE "odd"

\* The timer service's interrupt calls timer_handler.
app_timer_timeout ==
    /\ ~halted
    /\ TimerServiceFires
    /\ ~Active("timer")
    /\ Preempts(timer_prio)
    /\ isr' = Append(isr, [handler |-> "timer", pin |-> "NONE", prio |-> timer_prio,
                           pc |-> "toggle", trace |-> <<>>])
    /\ timer_runs' = OneMoreRun(timer_runs)
    /\ UNCHANGED <<pc_main, halted, gpiote_prio, timer_prio, m_led_a_timer_id, LED_1,
                   in_event_enabled, log, last_pin, last_dispatch, start_dispatched,
                   toggles_since_cmd, err_seen>>

\* One statement group of timer_handler, for the invocation f running at
\* priority prio, with led the level of the LED pin and l the diagnostic stream.
timer_handler(f, prio, led, l) ==
    IF f.pc = "toggle"
       THEN [frame |-> [f EXCEPT !.pc = "context"],
             led |-> nrf_drv_gpiote_out_toggle(led),
             log |-> l,
             returned |-> FALSE]
       ELSE [frame |-> f,
             led |-> led,
             log |-> NRF_LOG_INFO(l, TimerContextLine(prio)),
             returned |-> TRUE]

\* The state after one statement group of timer_handler with result r.
TimerStep(r) ==
    /\ LED_1' = r.led
    /\ log' = r.log
    /\ isr' = IF r.returned THEN Pop ELSE ReplaceTop(r.frame)
    /\ toggles_since_cmd' = IF r.led = LED_1 \/ toggles_since_cmd = 2
                               THEN toggles_since_cmd ELSE toggles_since_cmd + 1
    /\ UNCHANGED <<pc_main, halted, gpiote_prio, timer_prio, m_led_a_timer_id,
                   in_event_enabled, last_pin, last_dispatch, start_dispatched,
                   timer_runs, err_seen>>

\* timer_handler: nrf_drv_gpiote_out_toggle(LED_1).
timer_handler_toggle ==
    /\ HandlerRuns("timer", "toggle")
    /\ TimerStep(timer_handler(Top, current_int_priority_get, LED_1, log))

\* timer_handler: "Log execution mode", then return.
timer_handler_context ==
    /\ HandlerRuns("timer", "context")
    /\ TimerStep(timer_handler(Top, current_int_priority_get, LED_1, log))

(***************************************************************************)
(* The specifications.                                                     *)
(***************************************************************************)
button_press == \E pin \in Pins : gpiote_event_handler(pin)

Next ==
    \/ lfclk_request
    \/ log_init
    \/ gpio_init_out
    \/ gpio_init_out_set
    \/ gpio_init_in
    \/ gpio_init_enable_1
    \/ gpio_init_enable_2
    \/ timer_init
    \/ timer_create
    \/ main_banner
    \/ main_loop
    \/ button_press
    \/ button_handler_switch
    \/ button_handler_command
    \/ button_handler_context
    \/ app_timer_timeout
    \/ timer_handler_toggle
    \/ timer_handler_context

Spec == Init /\ [][Next]_vars

\* The CPU executes the innermost handler, and the interrupt controller keeps a
\* timer interrupt pending until it is taken: a handler or a timeout that is
\* enabled again and again is eventually executed.
Fairness ==
    /\ SF_vars(app_timer_timeout)
    /\ SF_vars(timer_handler_toggle)
    /\ SF_vars(timer_handler_context)
    /\ SF_vars(button_handler_switch)
    /\ SF_vars(button_handler_command)
    /\ SF_vars(button_handler_context)

FairSpec == Spec /\ Fairness

(***************************************************************************)
(* The claims.                                                             *)
(***************************************************************************)
\* C1: after any sequence of button dispatches, BlinkState is fixed by the
\* last dispatch whose timer command was accepted -- RUNNING after a start
\* (BUTTON_1), STOPPED after a stop (BUTTON_2) or when none was accepted yet --
\* and the timer service invokes the LED toggle callback exactly when
\* BlinkState is RUNNING.
C1_LastWriteWins ==
    /\ last_pin \in {BUTTON_1, BUTTON_2, "NONE"}
    /\ last_pin = BUTTON_1 => BlinkState = "RUNNING" /\ TimerServiceFires
    /\ last_pin # BUTTON_1 => BlinkState = "STOPPED" /\ ~TimerServiceFires

\* A start accepted after an earlier stop dispatch returned, with ticks run.
C1_Witness ==
    /\ last_pin = BUTTON_1
    /\ last_dispatch.pin = BUTTON_2
    /\ BlinkState = "RUNNING"
    /\ timer_runs = "even"

\* C2: once initialisation is complete and as long as button_handler was never
\* invoked with BUTTON_1, BlinkState is STOPPED, the LED is off, the timer
\* exists but does not run, and timer_handler has never been invoked.
C2_IdleUntilStart ==
    (pc_main \in {"banner", "idle"} /\ ~start_dispatched) =>
        /\ BlinkState = "STOPPED"
        /\ m_led_a_timer_id.state = "stopped"
        /\ LED_1 = "high" /\ ~LedOn
        /\ timer_runs = "none"
        /\ ~Active("timer")

\* main idles after a stop dispatch returned, and no start was ever dispatched.
C2_Witness ==
    /\ pc_main = "idle"
    /\ ~start_dispatched
    /\ ~halted
    /\ last_dispatch.pin = BUTTON_2
    /\ isr = <<>>

\* The number of occurrences of x in the sequence s.
Count(s, x) == Cardinality({i \in 1..Len(s) : s[i] = x})

\* The innermost invocation is button_handler(pin) about to issue its timer command.
AtCommand(pin) == HandlerRuns("button", "command") /\ Top.pin = pin

\* This step is the innermost invocation executing a statement group (and not
\* an interrupt entry or a return).
SameFrameStep == Len(isr') = Len(isr) /\ isr' # isr

\* This step is an invocation of timer_handler by the timer service.
TimerEntry == Len(isr') > Len(isr) /\ isr'[Len(isr')].handler = "timer"

C4_NoToggleAfterStop ==
    /\ [](last_pin = BUTTON_2 => BlinkState = "STOPPED")
    /\ [](last_dispatch.pin = BUTTON_2 => Count(last_dispatch.trace, MSG_STOP) = 1)
    /\ [][(last_pin = BUTTON_2 /\ last_pin' = BUTTON_2) => LED_1' = LED_1]_vars

\* C4 as amended: a stop dispatch logs "Stop toggling LED 1." and makes
\* BlinkState STOPPED; from the moment the stop is accepted no invocation of
\* timer_handler begins until a later start is accepted, and the LED level
\* changes at most once more, by an invocation of timer_handler that was in
\* flight, before its toggle, when the stop was accepted.
C4_StopEndsNewTicks ==
    /\ [](last_pin = BUTTON_2 => BlinkState = "STOPPED" /\ toggles_since_cmd <= 1)
    /\ [](last_dispatch.pin = BUTTON_2 =>
             /\ Count(last_dispatch.trace, MSG_STOP) = 1
             /\ last_dispatch.trace[1] = MSG_STOP)
    /\ [][last_pin = BUTTON_2 => ~TimerEntry]_vars
    /\ [][(last_pin = BUTTON_2 /\ last_pin' = BUTTON_2 /\ LED_1' # LED_1)
            => (HandlerRuns("timer", "toggle") /\ toggles_since_cmd = 0)]_vars

\* The stop dispatch has returned and the tick that was in flight has toggled
\* the LED after the stop was accepted.
C4_Witness ==
    /\ last_pin = BUTTON_2
    /\ last_dispatch.pin = BUTTON_2
    /\ toggles_since_cmd = 1
    /\ isr = <<>>

\* C5: in every interleaving of button dispatches and timer ticks, an
\* invocation of timer_handler begins only in a state where BlinkState is
\* RUNNING, that is, where the last accepted command was a start; none begins
\* once a stop was accepted (a tick in flight at that moment still completes).
C5_TicksOnlyWhileRunning ==
    [][TimerEntry => (BlinkState = "RUNNING" /\ last_pin = BUTTON_1 /\ ~halted)]_vars

\* A tick that was preempted by the stop dispatch completes after the stop
\* was accepted and the dispatch returned.
C5_Witness ==
    /\ HandlerRuns("timer", "context")
    /\ last_pin = BUTTON_2
    /\ last_dispatch.pin = BUTTON_2
    /\ BlinkState = "STOPPED"
    /\ toggles_since_cmd = 1

\* C6: once a start has been accepted, and under fairness of the timer
\* service and of handler execution, timer_handler is invoked again and again
\* for as long as no stop is accepted and the program is not halted: if from
\* some point on the last accepted command is a start, the callback is invoked
\* infinitely often.  The timer period is 500 whenever BlinkState is RUNNING.
C6_TicksForeverWhileRunning ==
    /\ [](BlinkState = "RUNNING" => m_led_a_timer_id.period = 500)
    /\ (<>[](last_pin = BUTTON_1 /\ ~halted)) => []<><<app_timer_timeout>>_vars

\* The timer runs, timer_handler has been invoked at least twice and is being
\* invoked again.
C6_Witness ==
    /\ last_pin = BUTTON_1
    /\ BlinkState = "RUNNING"
    /\ ~halted
    /\ timer_runs = "odd"
    /\ toggles_since_cmd = 2
    /\ HandlerRuns("timer", "toggle")

\* The two execution-context lines of button_handler.
ButtonContextLines == {MSG_BUTTON_THREAD, MSG_BUTTON_IRQ}

\* The innermost invocation is button_handler(pin).
InButton(pin) == isr # <<>> /\ Top.handler = "button" /\ Top.pin = pin

\* This step is the innermost invocation returning.
ReturnStep == Len(isr') < Len(isr)

\* C7 as stated: a dispatch with a pin other than BUTTON_1 and BUTTON_2 has no
\* observable effect: it emits nothing and issues no timer command.
C7_OtherPinNoEffect ==
    last_dispatch.pin = OTHER_PIN => last_dispatch.trace = <<>>

\* C7 as amended: a dispatch with a pin other than BUTTON_1 and BUTTON_2 issues
\* no timer command, emits no announcement line and leaves BlinkState, the
\* timer, the LED level and the halted flag unchanged; it still emits exactly
\* one line, the execution-context line, as it returns.
C7_OtherPinOnlyContext ==
    /\ [](last_dispatch.pin = OTHER_PIN =>
             /\ Len(last_dispatch.trace) = 1
             /\ last_dispatch.trace[1] \in ButtonContextLines)
    /\ [](InButton(OTHER_PIN) => Top.trace = <<>>)
    /\ [][(InButton(OTHER_PIN) /\ (SameFrameStep \/ ReturnStep))
            => UNCHANGED <<m_led_a_timer_id, LED_1, halted, last_pin>>]_vars

\* A dispatch with another pin returned while the timer runs.
C7_Witness ==
    /\ last_dispatch.pin = OTHER_PIN
    /\ BlinkState = "RUNNING"
    /\ ~halted
    /\ isr = <<>>

\* C8: every button_handler dispatch that returns has emitted exactly one
\* execution-context line, as its last output; for BUTTON_1 and BUTTON_2 its
\* outputs are, in this order, the announcement line, the timer command and
\* the context line; for any other pin the context line alone.  A dispatch
\* that has not returned, or was aborted, has emitted no context line.
C8_DispatchOrder ==
    /\ [](\A pin \in {BUTTON_1, BUTTON_2} :
            last_dispatch.pin = pin =>
               /\ Len(last_dispatch.trace) = 3
               /\ last_dispatch.trace[1] = Announcement(pin)
               /\ last_dispatch.trace[1] = (IF pin = BUTTON_1 THEN MSG_START ELSE MSG_STOP)
               /\ last_dispatch.trace[2] = (IF pin = BUTTON_1 THEN CMD_START ELSE CMD_STOP)
               /\ last_dispatch.trace[3] \in ButtonContextLines)
    /\ [](last_dispatch.pin = OTHER_PIN =>
             /\ Len(last_dispatch.trace) = 1
             /\ last_dispatch.trace[1] \in ButtonContextLines)
    /\ [](\A i \in 1..Len(isr) : \A line \in ButtonContextLines :
             isr[i].handler = "button" => Count(isr[i].trace, line) = 0)
    /\ [][(isr # <<>> /\ Top.handler = "button" /\ ReturnStep)
            => (log' # <<>> /\ log'[Len(log')] \in ButtonContextLines)]_vars

\* A stop dispatch returned: announcement, command, context line.
C8_Witness ==
    /\ last_dispatch = [pin |-> BUTTON_2,
                        trace |-> <<MSG_STOP, CMD_STOP, MSG_BUTTON_IRQ>>]
    /\ log # <<>>
    /\ log[Len(log)] = MSG_BUTTON_IRQ

\* C9 as stated: a non-success status is fatal at the point of detection, no
\* later step runs, and a failed dispatch leaves no partial effect: nothing
\* but the failed command itself has happened in it (stated here for the
\* dispatches after initialisation, when the timer exists).
C9_FatalNoPartialEffect ==
    /\ [](err_seen => halted)
    /\ [][~halted]_vars
    /\ []((halted /\ isr # <<>> /\ pc_main = "idle")
             => Top.trace = <<TimerCommand(Top.pin)>>)

\* C9 as amended: a non-success status is fatal at the point of detection: the
\* program is halted exactly when a collaborator has returned one, no step
\* runs from a halted state, and the step that detects the failure changes
\* neither the timer (BlinkState), the LED, the diagnostic stream nor main's
\* position.  A failed button dispatch is not without partial effect: its
\* announcement line was emitted before the command failed; it emits no
\* context line and never returns.
C9_FatalAtDetection ==
    /\ [](err_seen <=> halted)
    /\ [][~halted]_vars
    /\ [][halted' => UNCHANGED <<m_led_a_timer_id, LED_1, log, pc_main,
                                 in_event_enabled, last_pin, last_dispatch>>]_vars
    /\ [](halted /\ isr # <<>> =>
             /\ Top.handler = "button"
             /\ Top.pc = "command"
             /\ Top.trace = <<Announcement(Top.pin), TimerCommand(Top.pin)>>)

\* A stop command failed while the timer runs: halted inside the dispatch,
\* BlinkState still RUNNING.
C9_Witness ==
    /\ halted
    /\ InButton(BUTTON_2)
    /\ BlinkState = "RUNNING"
    /\ last_pin = BUTTON_1

CanDispatch(pin) == ENABLED gpiote_event_handler(pin)

\* C11: the controller has no terminal state.  Once main has reached its idle
\* loop it stays there forever; in every state where the program is not halted
\* and no handler is active, a start dispatch and a stop dispatch can both
\* begin; and under fair handler execution every non-halted state after
\* initialisation leads to a state where both can begin again (or to the
\* fatal halt).
C11_NoTerminalState ==
    /\ [][pc_main = "idle" => pc_main' = "idle"]_vars
    /\ []((pc_main = "idle" /\ ~halted /\ isr = <<>>)
            => (CanDispatch(BUTTON_1) /\ CanDispatch(BUTTON_2)))
    /\ []((pc_main = "idle" /\ ~halted)
            => <>(halted \/ (CanDispatch(BUTTON_1) /\ CanDispatch(BUTTON_2))))

\* main idles with the timer running, after ticks of an earlier run and a new
\* accepted start: both dispatches can begin again.
C11_Witness ==
    /\ pc_main = "idle"
    /\ ~halted
    /\ isr = <<>>
    /\ BlinkState = "RUNNING"
    /\ last_dispatch.pin = BUTTON_1
    /\ timer_runs = "even"
    /\ toggles_since_cmd = 0
    /\ CanDispatch(BUTTON_1)
    /\ CanDispatch(BUTTON_2)

\* The two execution-context lines of timer_handler.
TimerContextLines == {MSG_TIMER_THREAD, MSG_TIMER_IRQ}

\* The innermost invocation is timer_handler and this step is one of its own.
TimerHandlerStep ==
    isr # <<>> /\ Top.handler = "timer" /\ (SameFrameStep \/ ReturnStep)

\* C12: BlinkState is written only by button_handler's start and stop
\* commands: every step that changes it is the command step of a BUTTON_1 or
\* BUTTON_2 dispatch.  timer_handler and main's idle loop leave the timer
\* unchanged; an invocation of timer_handler does two things only, in this
\* order: it flips the LED level once (emitting nothing), then it emits one
\* execution-context line (leaving the LED alone) and returns.
C12_BlinkStateWriters ==
    /\ [][BlinkState' # BlinkState
            => (AtCommand(BUTTON_1) \/ AtCommand(BUTTON_2)) /\ SameFrameStep]_vars
    /\ [][TimerHandlerStep
            => /\ UNCHANGED <<m_led_a_timer_id, halted, pc_main, in_event_enabled,
                              last_pin, last_dispatch, start_dispatched>>
               /\ IF Top.pc = "toggle"
                     THEN /\ SameFrameStep
                          /\ isr'[Len(isr')].pc = "context"
                          /\ LED_1' # LED_1
                          /\ LED_1' \in {"low", "high"}
                          /\ log' = log
                     ELSE /\ ReturnStep
                          /\ LED_1' = LED_1
                          /\ \E line \in TimerContextLines :
                                log' = NRF_LOG_INFO(log, line)]_vars
    /\ [][(pc_main = "idle" /\ isr = <<>> /\ isr' = <<>>)
            => UNCHANGED <<m_led_a_timer_id, LED_1, log>>]_vars

\* main idles with the timer running: a tick has just lit the LED, logged its
\* context line and returned.
C12_Witness ==
    /\ pc_main = "idle"
    /\ isr = <<>>
    /\ BlinkState = "RUNNING"
    /\ timer_runs = "odd"
    /\ LedOn
    /\ log # <<>>
    /\ log[Len(log)] = MSG_TIMER_IRQ

\* An invocation of timer_handler has begun and not yet reached its toggle.
ToggleInFlight == \E i \in 1..Len(isr) : isr[i].handler = "timer" /\ isr[i].pc = "toggle"

\* timer_handler has toggled the LED an odd number of times since power-on.
\* timer_runs counts invocations as they begin, so one still before its toggle
\* is taken off.
OddToggles == (timer_runs = "odd") # ToggleInFlight

\* main has passed nrf_drv_gpiote_out_set(LED_1) in gpio_init.
LedInitialised ==
    pc_main \notin {"lfclk_request", "log_init", "gpio_init", "gpio_init_out_set"}

\* C13: in every reachable state the LED is on if and only if timer_handler
\* has toggled it an odd number of times since power-on.
C13_LedOnIffOddRuns == LedOn <=> OddToggles

\* What the code does keep: from nrf_drv_gpiote_out_set onwards the LED is on
\* exactly after an odd number of toggles, and the only steps that change the
\* level are the two gpio_init steps and timer_handler's toggle.
C13_AfterInit ==
    /\ [](LedInitialised => (LedOn <=> OddToggles))
    /\ [][LED_1' # LED_1
            => \/ pc_main \in {"gpio_init", "gpio_init_out_set"} /\ isr = <<>>
               \/ HandlerRuns("timer", "toggle") /\ SameFrameStep]_vars

\* C14: every start or stop command issued by button_handler targets a timer
\* that app_timer_create has already created: no invocation of button_handler
\* is active while the timer is still uncreated.
C14_CommandsTargetCreatedTimer ==
    /\ (AtCommand(BUTTON_1) \/ AtCommand(BUTTON_2))
            => m_led_a_timer_id.state # "uncreated"
    /\ Active("button") => m_led_a_timer_id.state # "uncreated"

\* This step appends the startup banner to the diagnostic stream.
BannerEmitted == log' # log /\ log'[Len(log')] = MSG_BANNER

\* lfclk_request, log_init, gpio_init and timer_init have all returned success.
InitSucceeded ==
    /\ pc_main \in {"banner", "idle"}
    /\ m_led_a_timer_id.state # "uncreated"
    /\ LED_1 \in {"low", "high"}
    /\ in_event_enabled = {BUTTON_1, BUTTON_2}

\* A checked call of main's own context failed: the halt is at an
\* initialisation step.
InitFailed == isr = <<>> /\ (halted \/ err_seen)

\* C15: the startup banner appears exactly once, only after clock, logging,
\* GPIO and timer initialisation have all succeeded, and never if one of them
\* failed: the only step that emits it is main's step from the banner
\* statement into the idle loop, which main reaches only with every
\* initialisation step done and takes only once; the stream never holds the
\* banner twice, holds it only when initialisation succeeded, and a failed
\* initialisation step leaves main halted before the banner for ever.
C15_BannerOnce ==
    /\ [][BannerEmitted
            => /\ MainRuns("banner") /\ InitSucceeded
               /\ pc_main' = "idle"]_vars
    /\ [][(pc_main = "banner" /\ pc_main' # "banner") => BannerEmitted]_vars
    /\ [][pc_main = "idle" => pc_main' = "idle" /\ ~BannerEmitted]_vars
    /\ [](Count(log, MSG_BANNER) <= 1)
    /\ [](Count(log, MSG_BANNER) = 1 => pc_main = "idle" /\ InitSucceeded)
    /\ [](pc_main \in {"banner", "idle"} => InitSucceeded /\ ~InitFailed)
    /\ [](InitFailed => halted /\ Count(log, MSG_BANNER) = 0)
    /\ [][InitFailed => InitFailed' /\ pc_main' = pc_main]_vars

\* main idles, not halted, and the banner is in the diagnostic stream.
C15_Witness ==
    /\ pc_main = "idle"
    /\ ~halted
    /\ isr = <<>>
    /\ Count(log, MSG_BANNER) = 1
    /\ log[Len(log)] = MSG_BANNER
    /\ Len(log) > 1

\* How far the invocation f has got: each handler has at most three statement
\* groups.
Progress(f) ==
    CASE f.pc = "switch" -> 0
      [] f.pc = "command" -> 1
      [] f.pc = "toggle" -> 1
      [] f.pc = "context" -> 2
      [] OTHER -> 0

\* The next statement group of the innermost invocation can execute.
TopCanStep ==
    ENABLED (\/ button_handler_switch
             \/ button_handler_command
             \/ button_handler_context
             \/ timer_handler_toggle
             \/ timer_handler_context)

\* C16: every invocation of button_handler and of timer_handler runs to
\* completion, or to the fatal halt, in a bounded number of steps without
\* waiting.  The next statement group of the innermost invocation is always
\* enabled, whatever the timer, the LED, the stream or main's position; each of
\* its steps moves it strictly forward through at most three statement groups,
\* returns or halts; no step changes a preempted invocation; at most two
\* invocations are ever nested; and every invocation eventually returns unless
\* the program halts.  Only main's idle loop takes steps that change nothing.
C16_HandlersRunToCompletion ==
    /\ []((isr # <<>> /\ ~halted) => TopCanStep)
    /\ [](Len(isr) <= 2)
    /\ [][SameFrameStep
            => /\ isr'[Len(isr')].handler = Top.handler
               /\ (Progress(isr'[Len(isr')]) > Progress(Top) \/ halted')]_vars
    /\ [][\A i \in 1..(Len(isr) - 1) : i <= Len(isr') => isr'[i] = isr[i]]_vars
    /\ [][(isr # <<>> /\ ~halted) => (isr' # isr \/ halted')]_vars
    /\ [](Len(isr) >= 1 => <>(Len(isr) < 1 \/ halted))
    /\ [](Len(isr) >= 2 => <>(Len(isr) < 2 \/ halted))

\* button_handler has preempted timer_handler before its toggle and is at its
\* last statement group.
C16_Witness ==
    /\ Len(isr) = 2
    /\ ~halted
    /\ Top.handler = "button" /\ Top.pc = "context"
    /\ isr[1].handler = "timer" /\ isr[1].pc = "toggle"

====
